---- MODULE Spec2Model ----
(***************************************************************************)
(* Model of scripts/generate_lineage_files.py: the clade label parser      *)
(* (parse_label), the hierarchy builder (the loop of load_lineage_files)   *)
(* and the ordering and emission of nodes (generate_hierarchy_file).       *)
(*                                                                         *)
(* A Python str is a sequence of one-character strings; a Python dict is   *)
(* a sequence of entries in insertion order with pairwise distinct names.  *)
(***************************************************************************)
EXTENDS Integers, Sequences, FiniteSets, TLC

VARIABLES column, unique_clades, silo_lineages, i, pc, names, output

vars == <<column, unique_clades, silo_lineages, i, pc, names, output>>

-----------------------------------------------------------------------------
(* Bounds of the input space *)

\* longest label made of delimiters only
MaxLen == 2

\* longest "clade" column (rows after dropna)
MaxCol == 2

-----------------------------------------------------------------------------
(* Strings *)

\* Unicode code points of the characters that occur in the labels
Ord ==
  [c \in {".", "1", "2", "3", "A", "N", "X", "_", "a", "d", "e", "g", "i",
          "n", "o", "s", "u"} |->
     CASE c = "." -> 46 [] c = "1" -> 49 [] c = "2" -> 50 [] c = "3" -> 51
       [] c = "A" -> 65 [] c = "N" -> 78 [] c = "X" -> 88 [] c = "_" -> 95
       [] c = "a" -> 97 [] c = "d" -> 100 [] c = "e" -> 101 [] c = "g" -> 103
       [] c = "i" -> 105 [] c = "n" -> 110 [] c = "o" -> 111 [] c = "s" -> 115
       [] c = "u" -> 117]

\* the two delimiters: free labels are every way to arrange them
Alphabet == {".", "_"}

Words(n) == UNION {[1..k -> Alphabet] : k \in 1..n}

unassigned == <<"u", "n", "a", "s", "s", "i", "g", "n", "e", "d">>

None == <<"N", "o", "n", "e">>

\* labels of the shape the data set uses, and labels around the sentinels
Examples ==
  { <<"A">>,
    <<"A", "_", "1">>,
    <<"A", "_", "1", ".", "2">>,
    <<"A", ".", "1", "_", "2">>,
    <<"X", "_", "1", ".", "2", ".", "3">>,
    None,
    None \o <<"_", "1">>,
    None \o <<"_", "1", ".", "2">>,
    None \o <<".", "1", "_", "2">>,
    unassigned,
    unassigned \o <<"_", "1">> }

\* read_csv turns an empty field into NaN and dropna removes it: no label is ""
Labels == Words(MaxLen) \cup Examples

Columns == UNION {[1..k -> Labels] : k \in 0..MaxCol}

Range(s) == {s[k] : k \in 1..Len(s)}

Contains(s, c) == \E k \in 1..Len(s) : s[k] = c

\* str.split(sep) for a one-character separator
RECURSIVE split(_, _)
split(s, sep) ==
  IF ~Contains(s, sep)
    THEN <<s>>
    ELSE LET k == CHOOSE k \in 1..Len(s) :
                    s[k] = sep /\ \A j \in 1..(k - 1) : s[j] # sep
         IN  <<SubSeq(s, 1, k - 1)>> \o split(SubSeq(s, k + 1, Len(s)), sep)

\* str < str: lexicographic by code point, a proper prefix is smaller
RECURSIVE StrLess(_, _)
StrLess(a, b) ==
  IF b = <<>> THEN FALSE
  ELSE IF a = <<>> THEN TRUE
  ELSE IF Ord[Head(a)] # Ord[Head(b)] THEN Ord[Head(a)] < Ord[Head(b)]
  ELSE StrLess(Tail(a), Tail(b))

\* tuple < tuple for the 3-tuples of strings that parse_label returns
TupleLess(s, t) ==
  \/ StrLess(s[1], t[1])
  \/ s[1] = t[1] /\ StrLess(s[2], t[2])
  \/ s[1] = t[1] /\ s[2] = t[2] /\ StrLess(s[3], t[3])

-----------------------------------------------------------------------------
(* parse_label *)

\* a parser that only looks for the dot when it sets the minor lineage
parse_label_dot_only(clade) ==
  LET genotype == split(clade, "_")[1]
      major_lineage == IF Len(split(clade, "_")) > 1
                         THEN split(clade, ".")[1] ELSE <<>>
      minor_lineage == IF Len(split(clade, ".")) > 1 THEN clade ELSE <<>>
  IN  <<genotype, major_lineage, minor_lineage>>

\* a parser whose minor lineage is the part after the first dot
parse_label_minor_suffix(clade) ==
  LET genotype == split(clade, "_")[1]
      major_lineage == IF Len(split(clade, "_")) > 1
                         THEN split(clade, ".")[1] ELSE <<>>
      minor_lineage == IF Len(split(clade, "_")) > 1
                          /\ Len(split(clade, ".")) > 1
                         THEN split(clade, ".")[2] ELSE <<>>
  IN  <<genotype, major_lineage, minor_lineage>>

parse_label(clade) ==
  LET genotype == split(clade, "_")[1]
      major_lineage == IF Len(split(clade, "_")) > 1
                         THEN split(clade, ".")[1] ELSE <<>>
      minor_lineage == IF Len(split(clade, "_")) > 1
                          /\ Len(split(clade, ".")) > 1
                         THEN clade ELSE <<>>
  IN  <<genotype, major_lineage, minor_lineage>>

-----------------------------------------------------------------------------
(* The dict silo_lineages *)

Node(name, parents) == [name |-> name, aliases |-> <<>>, parents |-> parents]

Keys(d) == {d[k].name : k \in 1..Len(d)}

KeyList(d) == [k \in 1..Len(d) |-> d[k].name]

Get(d, name) == d[CHOOSE k \in 1..Len(d) : d[k].name = name]

\* the contents of the dict without its insertion order
Contents(d) == Range(d)

\* d[name] = {...} without the "not in" test: a later write replaces the node
PutAlways(d, name, parents) ==
  IF name \in Keys(d)
    THEN [k \in 1..Len(d) |->
            IF d[k].name = name THEN Node(name, parents) ELSE d[k]]
    ELSE Append(d, Node(name, parents))

\* if name not in d: d[name] = {"aliases": [], "parents": parents}
PutIfAbsent(d, name, parents) ==
  IF name \in Keys(d) THEN d ELSE Append(d, Node(name, parents))

\* the dict with the "None" sentinel forgotten
OnlyUnassigned == <<Node(unassigned, <<>>)>>

Sentinels == <<Node(unassigned, <<>>), Node(None, <<>>)>>

-----------------------------------------------------------------------------
(* The three steps of one iteration of the builder loop *)

GenotypeInsert(d, clade) ==
  PutIfAbsent(d, split(clade, "_")[1], <<>>)

HasMajor(clade) == Len(split(clade, "_")) > 1

\* a major lineage that names the clade, not the genotype, as its parent
MajorInsertParentClade(d, clade) ==
  PutIfAbsent(d, split(clade, ".")[1], <<clade>>)

MajorInsert(d, clade) ==
  PutIfAbsent(d, split(clade, ".")[1], <<split(clade, "_")[1]>>)

HasMinor(clade) == Len(split(clade, ".")) > 1

\* a minor lineage cut after its second dot-separated part
MinorInsertTruncated(d, clade) ==
  PutIfAbsent(d, split(clade, ".")[1] \o <<".">> \o split(clade, ".")[2],
              <<split(clade, ".")[1]>>)

MinorInsert(d, clade) ==
  PutIfAbsent(d, clade, <<split(clade, ".")[1]>>)

\* one whole iteration of the loop body
Iteration(d, clade) ==
  LET d1 == GenotypeInsert(d, clade)
  IN  IF ~HasMajor(clade) THEN d1
      ELSE LET d2 == MajorInsert(d1, clade)
           IN  IF ~HasMinor(clade) THEN d2 ELSE MinorInsert(d2, clade)

\* Series.unique(): the distinct values in order of first appearance
RECURSIVE unique(_)
unique(s) ==
  IF s = <<>> THEN <<>>
  ELSE LET r == unique(SubSeq(s, 1, Len(s) - 1))
       IN  IF s[Len(s)] \in Range(r) THEN r ELSE Append(r, s[Len(s)])

\* the dict the loop returns for a sequence of clades
RECURSIVE build(_)
build(clades) ==
  IF clades = <<>> THEN Sentinels
  ELSE Iteration(build(SubSeq(clades, 1, Len(clades) - 1)),
                 clades[Len(clades)])

-----------------------------------------------------------------------------
(* sorted(lineages.keys(), key=parse_label) *)

\* stable insertion of x: before the first element whose key is greater
RECURSIVE InsertByKey(_, _)
InsertByKey(s, x) ==
  IF s = <<>> THEN <<x>>
  ELSE IF TupleLess(parse_label(x), parse_label(Head(s)))
         THEN <<x>> \o s
         ELSE <<Head(s)>> \o InsertByKey(Tail(s), x)

RECURSIVE sorted(_)
sorted(s) ==
  IF s = <<>> THEN <<>>
  ELSE InsertByKey(sorted(SubSeq(s, 1, Len(s) - 1)), s[Len(s)])

-----------------------------------------------------------------------------
(* The program *)

Init ==
  /\ column \in Columns
  /\ unique_clades = <<>>
  /\ silo_lineages = <<>>
  /\ i = 0
  /\ pc = "load"
  /\ names = <<>>
  /\ output = <<>>

\* lines 27-34: the distinct clades and the dict with the two sentinels
Load ==
  /\ pc = "load"
  /\ unique_clades' = unique(column)
  /\ silo_lineages' = Sentinels
  /\ i' = 1
  /\ pc' = IF unique(column) = <<>> THEN "sort" ELSE "genotype"
  /\ UNCHANGED <<column, names, output>>

\* lines 36-41
GenotypeStep ==
  /\ pc = "genotype"
  /\ silo_lineages' = GenotypeInsert(silo_lineages, unique_clades[i])
  /\ pc' = "major"
  /\ UNCHANGED <<column, unique_clades, i, names, output>>

\* lines 42-48; without "_" the iteration ends here
MajorStep ==
  /\ pc = "major"
  /\ IF HasMajor(unique_clades[i])
       THEN /\ silo_lineages' = MajorInsert(silo_lineages, unique_clades[i])
            /\ pc' = "minor"
            /\ i' = i
       ELSE /\ silo_lineages' = silo_lineages
            /\ pc' = IF i < Len(unique_clades) THEN "genotype" ELSE "sort"
            /\ i' = i + 1
  /\ UNCHANGED <<column, unique_clades, names, output>>

\* lines 49-55, then the next clade
MinorStep ==
  /\ pc = "minor"
  /\ silo_lineages' = IF HasMinor(unique_clades[i])
                        THEN MinorInsert(silo_lineages, unique_clades[i])
                        ELSE silo_lineages
  /\ pc' = IF i < Len(unique_clades) THEN "genotype" ELSE "sort"
  /\ i' = i + 1
  /\ UNCHANGED <<column, unique_clades, names, output>>

\* lines 56 and 92: the dict is returned and its keys are sorted
Sort ==
  /\ pc = "sort"
  /\ names' = sorted(KeyList(silo_lineages))
  /\ pc' = "write"
  /\ UNCHANGED <<column, unique_clades, silo_lineages, i, output>>

\* lines 93-100: one block per name, in the order of names
WriteNode ==
  /\ pc = "write"
  /\ output' = Append(output, Get(silo_lineages, names[Len(output) + 1]))
  /\ pc' = IF Len(output) + 1 = Len(names) THEN "done" ELSE "write"
  /\ UNCHANGED <<column, unique_clades, silo_lineages, i, names>>

Next ==
  \/ Load
  \/ GenotypeStep
  \/ MajorStep
  \/ MinorStep
  \/ Sort
  \/ WriteNode

Spec == Init /\ [][Next]_vars

-----------------------------------------------------------------------------
(* Helpers of the properties *)

Returned == pc \in {"sort", "write", "done"}

InLoop == pc \in {"genotype", "major", "minor"}

Reverse(s) == [k \in 1..Len(s) |-> s[Len(s) + 1 - k]]

\* the sequences, duplicates allowed, with the same set of strings as c
SameSet(c) ==
  {c2 \in UNION {[1..k -> Range(c)] : k \in 0..MaxCol} : Range(c2) = Range(c)}

ParentClosed(d) ==
  \A k \in 1..Len(d) : \A p \in Range(d[k].parents) : p \in Keys(d)

\* edges from name up to a parentless node, counted up to fuel
RECURSIVE ChainEdges(_, _, _)
ChainEdges(d, name, fuel) ==
  IF fuel = 0 \/ Get(d, name).parents = <<>>
    THEN 0
    ELSE 1 + ChainEdges(d, Get(d, name).parents[1], fuel - 1)

-----------------------------------------------------------------------------
(* C1: parent closure during the loop *)

\* C1: after every single insertion of the builder loop, every parent that a
\* node names is a key of the dict; when the major lineage of a clade is about
\* to be inserted its genotype is a key, and when the minor lineage is about
\* to be inserted its major lineage is a key.
C1_ParentClosure ==
  /\ ParentClosed(silo_lineages)
  /\ pc = "major" => split(unique_clades[i], "_")[1] \in Keys(silo_lineages)
  /\ pc = "minor" =>
       /\ split(unique_clades[i], "_")[1] \in Keys(silo_lineages)
       /\ split(unique_clades[i], ".")[1] \in Keys(silo_lineages)

\* an iteration has just inserted a minor lineage below its major lineage
C1_Witness ==
  /\ pc \in {"genotype", "sort"}
  /\ i > 1
  /\ HasMajor(unique_clades[i - 1]) /\ HasMinor(unique_clades[i - 1])
  /\ silo_lineages[Len(silo_lineages)] =
       Node(unique_clades[i - 1], <<split(unique_clades[i - 1], ".")[1]>>)
  /\ silo_lineages[Len(silo_lineages) - 1].name
       = split(unique_clades[i - 1], ".")[1]
  /\ silo_lineages[Len(silo_lineages) - 2].name
       = split(unique_clades[i - 1], "_")[1]

-----------------------------------------------------------------------------
(* C2: the sentinels *)

\* C2: the returned dict has the keys "unassigned" and "None", each with empty
\* aliases and empty parents, whatever the column holds.
C2_Sentinels ==
  Returned =>
    /\ unassigned \in Keys(silo_lineages)
    /\ None \in Keys(silo_lineages)
    /\ Get(silo_lineages, unassigned) = Node(unassigned, <<>>)
    /\ Get(silo_lineages, None) = Node(None, <<>>)

\* the dict is returned for a column whose label has "None" as major lineage
C2_Witness ==
  /\ pc = "sort"
  /\ \E s \in Range(unique_clades) :
        HasMajor(s) /\ split(s, ".")[1] = None

-----------------------------------------------------------------------------
(* C3: order independence of the builder *)

\* C3: two sequences with the same set of distinct strings give the same
\* node names and, for every node name, the same parents.
C3_OrderIndependent ==
  pc = "sort" =>
    \A c2 \in SameSet(column) :
       Contents(build(c2)) = Contents(silo_lineages)

-----------------------------------------------------------------------------
(* C4: parents are emitted before their children *)

\* C4: in the emitted sequence of nodes every node with a parent comes after
\* the node that its parents list names.
C4_ParentBeforeChild ==
  pc = "done" =>
    \A b \in 1..Len(output) : \A p \in Range(output[b].parents) :
       \E a \in 1..(b - 1) : output[a].name = p

-----------------------------------------------------------------------------
(* C5: the output order does not depend on the insertion order *)

\* C5: distinct node names have distinct keys parse_label(name), and the
\* names as sorted are the same for every insertion order of the same names:
\* the reversed dict and the dict of every rearranged column.
C5_OrderDeterministic ==
  pc = "write" /\ output = <<>> =>
    /\ \A x, y \in Keys(silo_lineages) :
          x # y => parse_label(x) # parse_label(y)
    /\ sorted(Reverse(KeyList(silo_lineages))) = names
    /\ \A c2 \in SameSet(column) :
          Keys(build(c2)) = Keys(silo_lineages)
            => sorted(KeyList(build(c2))) = names

\* the names are sorted, and a rearranged column inserts them in another order
C5_Witness ==
  /\ pc = "write" /\ output = <<>>
  /\ Len(names) >= 5
  /\ \E c2 \in SameSet(column) :
        /\ Keys(build(c2)) = Keys(silo_lineages)
        /\ KeyList(build(c2)) # KeyList(silo_lineages)

-----------------------------------------------------------------------------
(* C6: level typing of the parent links *)

\* C6: for every input label s with parse_label(s) = (g, m, n), in the
\* returned dict g has no parent, m (inserted when s has a "_") has the
\* parents [g] and n (inserted when n is not empty) has the parents [m].
C6_LevelTyping ==
  pc = "sort" =>
    \A s \in Range(unique_clades) :
       LET p == parse_label(s)
       IN  /\ Get(silo_lineages, p[1]).parents = <<>>
           /\ HasMajor(s) => Get(silo_lineages, p[2]).parents = <<p[1]>>
           /\ p[3] # <<>> => Get(silo_lineages, p[3]).parents = <<p[2]>>

-----------------------------------------------------------------------------
(* C7: forest of depth at most 2 *)

\* C7: every node of the returned dict has at most one parent and its chain
\* of parent links ends after at most 2 edges (so it meets no cycle).
C7_DepthAtMostTwo ==
  pc = "sort" =>
    \A k \in 1..Len(silo_lineages) :
       /\ Len(silo_lineages[k].parents) <= 1
       /\ ChainEdges(silo_lineages, silo_lineages[k].name,
                     Len(silo_lineages) + 1) <= 2

-----------------------------------------------------------------------------
(* C8: the minor component of parse_label *)

-----------------------------------------------------------------------------
(* C9: first write wins *)

\* C9: a step of the loop keeps every entry of the dict as it is, name,
\* aliases and parents, and either appends one entry or changes nothing.
C9_FirstWriteWins ==
  [][InLoop =>
       /\ Len(silo_lineages') >= Len(silo_lineages)
       /\ \A k \in 1..Len(silo_lineages) : silo_lineages'[k] = silo_lineages[k]
       /\ \/ silo_lineages' = silo_lineages
          \/ Len(silo_lineages') = Len(silo_lineages) + 1]_vars

\* a second clade found its genotype and its major lineage in the dict: it
\* has both, and only its minor lineage was appended
C9_Witness ==
  /\ pc = "sort"
  /\ Len(unique_clades) = 2
  /\ HasMajor(unique_clades[1]) /\ HasMinor(unique_clades[1])
  /\ HasMajor(unique_clades[2]) /\ HasMinor(unique_clades[2])
  /\ Len(silo_lineages) = 6

-----------------------------------------------------------------------------
(* C10: the node set of the builder against the parser *)

A_1 == <<"A", "_", "1">>

A_1_2 == <<"A", "_", "1", ".", "2">>

FiveNodes ==
  column = <<A_1, A_1_2>> =>
    Contents(silo_lineages) =
      { Node(unassigned, <<>>), Node(None, <<>>), Node(<<"A">>, <<>>),
        Node(A_1, <<<<"A">>>>), Node(A_1_2, <<A_1>>) }

====
